---- MODULE Spec2Model ----
(***************************************************************************)
(* Model of backend/main.py: the ConnectionManager (connect, disconnect,   *)
(* _periodic_cleanup) and the /ws session handler websocket_endpoint.      *)
(*                                                                         *)
(* The program runs on one asyncio event loop.  A task runs without        *)
(* interruption until it suspends at an await that has to wait (a channel  *)
(* operation, the sleep of the sweep, a lock that is taken).  The variable *)
(* running names the task that is between two suspension points; every     *)
(* other task is frozen while it is set.                                   *)
(***************************************************************************)
EXTENDS Integers, Sequences, FiniteSets, TLC

\* ---------------------------------------------------------------- bounds
MaxConnections == 1                     \* ConnectionManager.max_connections, scaled down
NumIdents == MaxConnections + 1         \* distinct "host:port" identities
NumChannels == NumIdents + 1            \* WebSocket objects; the last one reuses identity 1
Timeout == 1                            \* ConnectionManager.timeout, scaled down
MaxTime == Timeout + 1                  \* the clock stops advancing here

MaxFrags == 3                           \* longest upstream sequence of one turn
MaxTurns == 2                           \* frames one session receives

WS_1008_POLICY_VIOLATION == 1008
WS_1000_NORMAL_CLOSURE == 1000

Channels == 1..NumChannels
Idents == 1..NumIdents
NoTask == 0

\* client_id = f"{websocket.client.host}:{websocket.client.port}"
ClientId(ws) == ((ws - 1) % NumIdents) + 1

VARIABLES
    active_connections,   \* Dict[str, WebSocket]: function from a set of identities to channels
    connection_times,     \* Dict[str, datetime]
    cleanup_task,         \* _cleanup_task: NoTask (None) or the id of the sweep task
    lockHolder,           \* _lock: the task that holds it, or NoTask
    lockWaiters,          \* _lock._waiters, first in first out
    pc,                   \* position of every task (sessions 1..NumChannels, then sweep tasks)
    running,              \* the task that is executing between two suspension points
    dArg,                 \* the channel argument of the task's current disconnect call
    stale,                \* stale_connections of a sweep task
    wsState,              \* per channel: "new", "open" (accepted) or "closed" (close sent)
    closeCode,            \* per channel: the code of the first close sent on it, 0 if none
    clientUp,             \* per channel: the peer is still there
    now,                  \* datetime.now()
    connectRet,           \* per channel: what connect returned ("none" while it has not)
    sawFull,              \* per channel: the table held max_connections entries at the limit check
    everAdmitted,         \* per channel: connect put it into the table
    prevEntry,            \* per channel: the channel its identity had in the table when connect looked, 0 if none
    acceptFailures,       \* number of accept calls that raised, capped at 1
    removals,             \* number of entries disconnect removed, capped at 1
    nested,               \* a task asked for the lock while holding it
    raised,               \* per task: an exception escaped a manager call
    frame,                \* per channel: the inbound frame of the current turn
    upstream,             \* per channel: what the completion API yields in the current turn
    pos,                  \* per channel: fragments taken from the upstream so far
    pending,              \* per channel: the text of the send_text the session is waiting in
    sent,                 \* per channel: the text frames sent in the current turn, in order
    apiCalls,             \* per channel: client.chat.completions.create calls of the current turn
    turns,                \* per channel: frames received so far
    lastTurn,             \* per channel: how the last finished turn ended
    metricsLog,           \* the "Stream metrics" records written to the log
    prevTurn,             \* per channel: how the turn before the last one ended
    streamsEnded,         \* number of streams that have ended, normally or not
    caught,               \* per channel: the exception the handler of line 485 caught in the current turn
    payload,              \* per channel: the arguments of the create(...) call of the current turn
    request,              \* per channel: chat_request.messages of the current turn
    env,                  \* the environment variables Settings() reads
    settings,             \* config.settings
    cfgPc,                \* start-up: "import_config", "import_main", "serving" or "failed"
    allowed_origins,      \* main.allowed_origins
    corsCheck,            \* the last origin cors_middleware looked at, and its verdict
    chatStatus,           \* POST /chat: status of the last response, 0 before the first
    chatCaught,           \* POST /chat: the exception the handler of line 324 caught
    chatCalls,            \* POST /chat: create(...) calls of the last request
    chatPayload,          \* POST /chat: the arguments of the create(...) call of the last request
    chatRequest,          \* POST /chat: request.messages of the last request
    chatUpstream,         \* POST /chat: what create(...) did in the last request, "none" if not called
    chatDetail            \* POST /chat: detail of the last 500 response

mgrVars == <<active_connections, connection_times, cleanup_task, lockHolder, lockWaiters>>
taskVars == <<pc, running, dArg, stale>>
chanVars == <<wsState, closeCode, clientUp>>
histVars == <<connectRet, sawFull, everAdmitted, prevEntry, acceptFailures, removals, nested, raised>>
cfgVars == <<env, settings, cfgPc, allowed_origins, corsCheck>>
chatVars == <<chatStatus, chatCaught, chatCalls, chatPayload, chatRequest, chatUpstream,
             chatDetail>>
turnVars == <<frame, upstream, pos, pending, sent, apiCalls, turns, lastTurn, metricsLog,
             prevTurn, streamsEnded, caught, payload, request, cfgVars, chatVars>>
vars == <<mgrVars, taskVars, chanVars, now, histVars, turnVars>>

Tasks == DOMAIN pc
SweepTasks == Tasks \ Channels
IsSession(t) == t \in Channels

\* ------------------------------------------------------------ dict helpers
Put(d, k, v) == [x \in (DOMAIN d) \cup {k} |-> IF x = k THEN v ELSE d[x]]
Del(d, k) == [x \in (DOMAIN d) \ {k} |-> d[x]]
Size(d) == Cardinality(DOMAIN d)
EmptyDict == [x \in {} |-> 0]

\* ------------------------------------------------------------ channel model
\* WebSocket.close(code): the first close passes the channel to "closed" with
\* its code; a close of a channel that is already closed raises, and every
\* caller but the refusal in connect swallows that.
CloseWs(st, ws) == [st EXCEPT ![ws] = "closed"]
CloseCodeOf(cc, ws, code) == [cc EXCEPT ![ws] = IF cc[ws] = 0 THEN code ELSE cc[ws]]

\* ws.client_state.connected, when the read yields a value
Connected(ws) == wsState[ws] = "open" /\ clientUp[ws]

\* ------------------------------------------------------------ upstream model
\* A streamed chunk either has no choices, or a delta without text, or text
Frags == {"nochoices", "empty", "a", "b"}
SeqsUpTo(S, n) == UNION {[1..k -> S] : k \in 0..n}
\* The completion API yields chunks and then ends or raises
Upstreams == [chunks : SeqsUpTo(Frags, MaxFrags), fails : BOOLEAN]
NoUpstream == [chunks |-> <<>>, fails |-> FALSE]

\* ------------------------------------------------------------ initial state
\* ConnectionManager.__init__, before any /ws session has started
\* ------------------------------------------------------------ strings
\* A string is a sequence of letters; the literals the code looks for are
\* letters of their own: "http", "https", "://", "www.", "*", "," and " ",
\* and "h" stands for any other text.
MaxRawLen == 3
MaxOriginLen == 3
MaxRequests == 1

RawLetters == {"http", "://", "www.", "h", "*", ",", " "}
RequestLetters == {"http", "://", "www.", "h"}

RawStrings == SeqsUpTo(RawLetters, MaxRawLen)
RequestOrigins == SeqsUpTo(RequestLetters, MaxOriginLen)

Range(s) == {s[i] : i \in 1..Len(s)}

\* str.startswith(prefix)
StartsWith(s, prefix) ==
    /\ Len(s) >= Len(prefix)
    /\ SubSeq(s, 1, Len(prefix)) = prefix

\* str.replace(old, new): every occurrence, left to right
RECURSIVE Replace(_, _, _)
Replace(s, old, new) ==
    IF s = <<>> THEN <<>>
    ELSE IF StartsWith(s, old)
    THEN new \o Replace(SubSeq(s, Len(old) + 1, Len(s)), old, new)
    ELSE <<Head(s)>> \o Replace(Tail(s), old, new)

\* str.strip()
RECURSIVE LStrip(_)
LStrip(s) == IF s # <<>> /\ Head(s) = " " THEN LStrip(Tail(s)) ELSE s

RECURSIVE RStrip(_)
RStrip(s) ==
    IF s # <<>> /\ s[Len(s)] = " " THEN RStrip(SubSeq(s, 1, Len(s) - 1)) ELSE s

Strip(s) == RStrip(LStrip(s))

\* str.split(","): the fields between the commas, at least one
RECURSIVE Split(_, _)
Split(s, field) ==
    IF s = <<>> THEN <<field>>
    ELSE IF Head(s) = "," THEN <<field>> \o Split(Tail(s), <<>>)
    ELSE Split(Tail(s), Append(field, Head(s)))

SplitComma(s) == Split(s, <<>>)

\* ------------------------------------------------------------ config.py
\* The https and www variants parse_cors_origins adds for one origin
ExpandOrigin(origin) ==
    {origin}
    \cup (IF StartsWith(origin, <<"http", "://">>)
          THEN {Replace(origin, <<"http", "://">>, <<"https", "://">>)}
          ELSE {})
    \cup (IF ~StartsWith(origin, <<"www.">>)
          THEN {Replace(origin, <<"://">>, <<"://", "www.">>)}
          ELSE {})

\* The value of CORS_ORIGINS: not set, a comma-separated string, or a list
\* (whose items are written here as the fields of raw)
CorsInputs == [form : {"str", "list"}, raw : RawStrings]

default_cors_origins == {<<"http", "://", "h">>}

\* Settings.parse_cors_origins (the result is used as a collection only)
parse_cors_origins(v) ==
    IF v.form = "str"
    THEN LET fields == SplitComma(v.raw)
             origins == {Strip(fields[i]) : i \in 1..Len(fields)} \ {<<>>}
         IN  UNION {ExpandOrigin(o) : o \in origins}
    ELSE IF v.form = "list"
    THEN Range(SplitComma(v.raw))
    ELSE default_cors_origins

NoCors == [form |-> "unset", raw |-> <<>>]

DefaultEnv ==
    [OPENAI |-> "set", VECTOR_SEARCH_ENABLED |-> "unset",
     VECTOR_SEARCH_ENDPOINT |-> "unset", VECTOR_SEARCH_KEY |-> "unset",
     VECTOR_SEARCH_INDEX |-> "unset", CORS_ORIGINS |-> NoCors]

\* The environments Settings() is resolved from: every setting of the vector
\* search variables, and every value of CORS_ORIGINS
VectorEnvs ==
    [OPENAI : {"set", "unset"},
     VECTOR_SEARCH_ENABLED : {"unset", "true", "false"},
     VECTOR_SEARCH_ENDPOINT : {"unset", "", "url"},
     VECTOR_SEARCH_KEY : {"unset", "", "key"},
     VECTOR_SEARCH_INDEX : {"unset", "", "index"},
     CORS_ORIGINS : {NoCors}]

CorsEnvs == {[DefaultEnv EXCEPT !.CORS_ORIGINS = c] : c \in CorsInputs}

\* Optional[...] = Field(default=None): a variable that is not set gives None
Optional(x) == IF x = "unset" THEN "None" ELSE x

\* The attributes class Settings declares
SettingsFields ==
    {"app_name", "environment", "debug", "cors_origins", "openai_api_key",
     "openai_api_base", "openai_api_version", "openai_deployment_name",
     "vector_search_enabled", "vector_search_endpoint", "vector_search_key",
     "vector_search_index", "system_prompt"}

\* system_prompt: str = Field(default="You are an AI assistant. ...")
default_system_prompt == "You are an AI assistant."

Unloaded ==
    [state |-> "unloaded", vector_search_enabled |-> FALSE,
     vector_search_endpoint |-> "None", vector_search_key |-> "None",
     vector_search_index |-> "None", cors_origins |-> {},
     system_prompt |-> default_system_prompt]

\* Settings(): the required OPENAI_* fields must be there and an endpoint
\* that is set must be a URL (HttpUrl), else validation fails; every other
\* value is taken as it is given.
ResolveSettings(e) ==
    IF e.OPENAI = "unset" \/ e.VECTOR_SEARCH_ENDPOINT = ""
    THEN [Unloaded EXCEPT !.state = "failed"]
    ELSE [state |-> "ok",
          vector_search_enabled |-> (e.VECTOR_SEARCH_ENABLED = "true"),
          vector_search_endpoint |-> Optional(e.VECTOR_SEARCH_ENDPOINT),
          vector_search_key |-> Optional(e.VECTOR_SEARCH_KEY),
          vector_search_index |-> Optional(e.VECTOR_SEARCH_INDEX),
          cors_origins |-> parse_cors_origins(e.CORS_ORIGINS),
          system_prompt |-> default_system_prompt]

\* ------------------------------------------------------------ main.py, CORS
\* get_allowed_origins: an origin with '*' becomes a compiled pattern
get_allowed_origins(cors_origins) ==
    {[pattern |-> ("*" \in Range(o)), text |-> o] : o \in cors_origins}

\* Pattern.match(origin) for re.escape(origin).replace('\\*', '.*'): the
\* pattern is matched from the start of the origin, '*' taking any text, and
\* the match may stop before the end of the origin.
RECURSIVE ReMatch(_, _)
ReMatch(pat, s) ==
    IF pat = <<>> THEN TRUE
    ELSE IF Head(pat) = "*"
    THEN \E k \in 0..Len(s) : ReMatch(Tail(pat), SubSeq(s, k + 1, Len(s)))
    ELSE s # <<>> /\ Head(s) = Head(pat) /\ ReMatch(Tail(pat), Tail(s))

\* is_origin_allowed(origin, allowed_origins); <<>> is no origin at all
is_origin_allowed(origin, allowed) ==
    IF origin = <<>> THEN FALSE
    ELSE \E a \in allowed :
            IF a.pattern THEN ReMatch(a.text, origin) ELSE origin = a.text

\* ------------------------------------------------------------ completion relay
\* An exception: its class, its status code (HTTPException only) and the
\* pieces of its message
NoError == [type |-> "none", status |-> 0, detail |-> <<>>]

HTTP_500_INTERNAL_SERVER_ERROR == 500

\* What client.chat.completions.create(...) or its stream raises
UpstreamError == [type |-> "APIError", status |-> 0, detail |-> <<"upstream failure">>]

\* raise HTTPException(status_code=500, detail=f"OpenAI API error: {str(e)}")
WrapError(e) ==
    [type |-> "HTTPException", status |-> HTTP_500_INTERNAL_SERVER_ERROR,
     detail |-> <<"OpenAI API error: ">> \o e.detail]

\* str(e): Starlette's HTTPException renders as "<status_code>: <detail>",
\* any other exception as its message
StrOf(e) ==
    IF e.type = "HTTPException" THEN <<"500: ">> \o e.detail ELSE e.detail

\* The arguments of a create(...) call: whether the call was made, its
\* stream flag, the number of entries under "dataSources" and its messages
NoPayload == [called |-> FALSE, stream |-> FALSE, dataSources |-> 0, messages |-> <<>>]

\* all([endpoint, key, index]): None and "" are both false
Truthy(x) == x \notin {"None", ""}

\* Reading settings.<name>: a name class Settings does not declare raises
HasAttr(name) == name \in SettingsFields

\* completion_kwargs (lines 181-218): the exception raised while it is built,
\* if any, and the number of data-source descriptors it holds
completion_kwargs(s) ==
    IF ~s.vector_search_enabled
    THEN [exc |-> NoError, dataSources |-> 0]
    ELSE IF ~(Truthy(s.vector_search_endpoint) /\ Truthy(s.vector_search_key)
              /\ Truthy(s.vector_search_index))
    THEN [exc |-> [type |-> "ValueError", status |-> 0,
                   detail |-> <<"Incomplete vector search configuration">>],
          dataSources |-> 0]
    ELSE IF ~(HasAttr("vector_search_semantic_config")
              /\ HasAttr("vector_search_embedding_deployment"))
    THEN [exc |-> [type |-> "AttributeError", status |-> 0,
                   detail |-> <<"'Settings' object has no attribute">>],
          dataSources |-> 0]
    ELSE [exc |-> NoError, dataSources |-> 1]

\* The messages of a ChatRequest: role, content and timestamp each
MaxMsgs == 2

ChatMessages ==
    {[role |-> "user", content |-> "question", timestamp |-> "t1"],
     [role |-> "assistant", content |-> "answer", timestamp |-> "t2"]}

ChatRequests == SeqsUpTo(ChatMessages, MaxMsgs)

\* The request the sessions and /chat send where the messages do not matter
PlainRequest == <<[role |-> "user", content |-> "question", timestamp |-> "t1"]>>

\* Variant that puts the system message after the request's messages
BuildMessages_SystemLast(s, msgs) ==
    [i \in 1..Len(msgs) |-> [role |-> msgs[i].role, content |-> msgs[i].content]]
    \o <<[role |-> "system", content |-> s.system_prompt]>>

\* messages = [{"role": "system", "content": settings.system_prompt}]
\*          + [{"role": m.role, "content": m.content} for m in request.messages]
BuildMessages(s, msgs) ==
    <<[role |-> "system", content |-> s.system_prompt]>>
    \o [i \in 1..Len(msgs) |-> [role |-> msgs[i].role, content |-> msgs[i].content]]

\* What create(...) does for a call without streaming
ChatUpstreams == {"ok", "malformed", "raises"}

\* Variant that calls create(...) a second time when the first call raised
generate_chat_completion_Retries(messages, s, stream, up) ==
    LET kw == completion_kwargs(s)
        args == [called |-> TRUE, stream |-> stream, dataSources |-> kw.dataSources,
                 messages |-> messages]
    IN  IF kw.exc # NoError
        THEN [exc |-> WrapError(kw.exc), result |-> "none", calls |-> 0,
              payload |-> NoPayload]
        ELSE IF stream
        THEN [exc |-> NoError, result |-> "generator", calls |-> 0, payload |-> args]
        ELSE IF up = "raises"
        THEN [exc |-> WrapError(UpstreamError), result |-> "none", calls |-> 2,
              payload |-> args]
        ELSE [exc |-> NoError, result |-> up, calls |-> 1, payload |-> args]

\* generate_chat_completion(messages, max_tokens, temperature, stream), given
\* what the upstream would do: the exception it raises (NoError when it
\* returns), what it returns, the create(...) calls it made itself and the
\* arguments of the call.  With stream=True it returns the generator and the
\* call is made by the generator's first step, outside the try of line 180.
generate_chat_completion(messages, s, stream, up) ==
    LET kw == completion_kwargs(s)
        args == [called |-> TRUE, stream |-> stream, dataSources |-> kw.dataSources,
                 messages |-> messages]
    IN  IF kw.exc # NoError
        THEN [exc |-> WrapError(kw.exc), result |-> "none", calls |-> 0,
              payload |-> NoPayload]
        ELSE IF stream
        THEN [exc |-> NoError, result |-> "generator", calls |-> 0, payload |-> args]
        ELSE IF up = "raises"
        THEN [exc |-> WrapError(UpstreamError), result |-> "none", calls |-> 1,
              payload |-> args]
        ELSE [exc |-> NoError, result |-> up, calls |-> 1, payload |-> args]

\* What the sessions and /chat start from once config.py and main.py are
\* imported with environment e
Loaded(e) ==
    /\ env = e
    /\ settings = ResolveSettings(e)
    /\ cfgPc = "serving"
    /\ allowed_origins = get_allowed_origins(ResolveSettings(e).cors_origins)
    /\ corsCheck = [requests |-> 0, origin |-> <<>>, allowed |-> FALSE]
    /\ caught = [ch \in Channels |-> NoError]
    /\ payload = [ch \in Channels |-> NoPayload]
    /\ request = [ch \in Channels |-> <<>>]
    /\ chatStatus = 0
    /\ chatCaught = NoError
    /\ chatCalls = 0
    /\ chatPayload = NoPayload
    /\ chatRequest = <<>>
    /\ chatUpstream = "none"
    /\ chatDetail = <<>>

InitServer ==
    /\ active_connections = EmptyDict
    /\ connection_times = EmptyDict
    /\ cleanup_task = NoTask
    /\ lockHolder = NoTask
    /\ lockWaiters = <<>>
    /\ pc = [ch \in Channels |-> "start"]
    /\ running = NoTask
    /\ dArg = [ch \in Channels |-> ch]
    /\ stale = [ch \in Channels |-> {}]
    /\ wsState = [ch \in Channels |-> "new"]
    /\ closeCode = [ch \in Channels |-> 0]
    /\ clientUp = [ch \in Channels |-> TRUE]
    /\ now = 0
    /\ connectRet = [ch \in Channels |-> "none"]
    /\ sawFull = [ch \in Channels |-> FALSE]
    /\ everAdmitted = [ch \in Channels |-> FALSE]
    /\ prevEntry = [ch \in Channels |-> 0]
    /\ acceptFailures = 0
    /\ removals = 0
    /\ nested = FALSE
    /\ raised = [ch \in Channels |-> FALSE]
    /\ frame = [ch \in Channels |-> "none"]
    /\ upstream = [ch \in Channels |-> NoUpstream]
    /\ pos = [ch \in Channels |-> 0]
    /\ pending = [ch \in Channels |-> "none"]
    /\ sent = [ch \in Channels |-> <<>>]
    /\ apiCalls = [ch \in Channels |-> 0]
    /\ turns = [ch \in Channels |-> 0]
    /\ lastTurn = [ch \in Channels |-> "none"]
    /\ metricsLog = <<>>
    /\ prevTurn = [ch \in Channels |-> "none"]
    /\ streamsEnded = 0

Init == InitServer /\ Loaded(DefaultEnv)

\* ------------------------------------------------------------ asyncio.Lock
\* Lock.acquire: taken at once when the lock is free and nobody waits,
\* otherwise the caller joins the waiters and suspends.
TryAcquire(t, lockedPc, waitPc) ==
    IF lockHolder = NoTask /\ lockWaiters = <<>>
    THEN /\ lockHolder' = t
         /\ lockWaiters' = lockWaiters
         /\ pc' = [pc EXCEPT ![t] = lockedPc]
         /\ running' = t
         /\ nested' = nested
    ELSE /\ lockHolder' = lockHolder
         /\ lockWaiters' = Append(lockWaiters, t)
         /\ pc' = [pc EXCEPT ![t] = waitPc]
         /\ running' = NoTask
         /\ nested' = (nested \/ lockHolder = t)

LockedPc(p) == CASE p = "c_wait" -> "c_locked"
                 [] p = "d_wait" -> "d_locked"
                 [] p = "s_wait" -> "s_locked"

\* Lock.release wakes the first waiter, which takes the lock when it resumes
LockAcquired(t) ==
    /\ running = NoTask
    /\ pc[t] \in {"c_wait", "d_wait", "s_wait"}
    /\ lockHolder = NoTask
    /\ lockWaiters # <<>>
    /\ Head(lockWaiters) = t
    /\ lockHolder' = t
    /\ lockWaiters' = Tail(lockWaiters)
    /\ pc' = [pc EXCEPT ![t] = LockedPc(pc[t])]
    /\ running' = t
    /\ UNCHANGED <<active_connections, connection_times, cleanup_task, dArg, stale,
                   chanVars, now, connectRet, sawFull, everAdmitted, prevEntry,
                   acceptFailures, removals, nested, raised>>
    /\ UNCHANGED turnVars

\* ------------------------------------------------------------ connect
\* websocket_endpoint calls manager.connect: async with self._lock
ConnectEnter(ch) ==
    /\ running = NoTask
    /\ pc[ch] = "start"
    /\ TryAcquire(ch, "c_locked", "c_wait")
    /\ UNCHANGED <<active_connections, connection_times, cleanup_task, dArg, stale,
                   chanVars, now, connectRet, sawFull, everAdmitted, prevEntry,
                   acceptFailures, removals, raised>>
    /\ UNCHANGED turnVars

\* if client_id in self.active_connections: ... await old.close()
ConnectCheckExisting(ch) ==
    /\ running = ch
    /\ pc[ch] = "c_locked"
    /\ IF ClientId(ch) \in DOMAIN active_connections
       THEN /\ pc' = [pc EXCEPT ![ch] = "c_close_old"]
            /\ running' = NoTask
            /\ prevEntry' = [prevEntry EXCEPT ![ch] = active_connections[ClientId(ch)]]
       ELSE /\ pc' = [pc EXCEPT ![ch] = "c_limit"]
            /\ running' = ch
            /\ UNCHANGED prevEntry
    /\ UNCHANGED <<mgrVars, dArg, stale, chanVars, now, connectRet, sawFull, everAdmitted,
                   acceptFailures, removals, nested, raised>>
    /\ UNCHANGED turnVars

\* Variant of the replacement of an old entry that forgets to close the old channel
ConnectCloseOld_NoClose(ch) ==
    /\ running = NoTask
    /\ pc[ch] = "c_close_old"
    /\ active_connections' = Del(active_connections, ClientId(ch))
    /\ connection_times' = Del(connection_times, ClientId(ch))
    /\ pc' = [pc EXCEPT ![ch] = "c_limit"]
    /\ running' = ch
    /\ UNCHANGED <<cleanup_task, lockHolder, lockWaiters, dArg, stale, chanVars, now,
                   histVars, turnVars>>

\* the close of the old channel has returned or raised (swallowed);
\* del self.active_connections[client_id]; del self.connection_times[client_id]
ConnectCloseOld(ch) ==
    /\ running = NoTask
    /\ pc[ch] = "c_close_old"
    /\ LET id == ClientId(ch)
           old == active_connections[id]
       IN  /\ wsState' = CloseWs(wsState, old)
           /\ closeCode' = CloseCodeOf(closeCode, old, WS_1000_NORMAL_CLOSURE)
           /\ active_connections' = Del(active_connections, id)
           /\ connection_times' = Del(connection_times, id)
    /\ pc' = [pc EXCEPT ![ch] = "c_limit"]
    /\ running' = ch
    /\ UNCHANGED <<cleanup_task, lockHolder, lockWaiters, dArg, stale, clientUp, now,
                   connectRet, sawFull, everAdmitted, prevEntry, acceptFailures, removals,
                   nested, raised>>
    /\ UNCHANGED turnVars

\* Variants of the limit check: an off-by-one comparison, and no check
AtLimit_OffByOne(conns) == Size(conns) > MaxConnections
AtLimit_Never(conns) == FALSE

\* if len(self.active_connections) >= self.max_connections
AtLimit(conns) == Size(conns) >= MaxConnections

ConnectLimit(ch) ==
    /\ running = ch
    /\ pc[ch] = "c_limit"
    /\ sawFull' = [sawFull EXCEPT ![ch] = (Cardinality(DOMAIN active_connections) = MaxConnections)]
    /\ pc' = [pc EXCEPT ![ch] = IF AtLimit(active_connections) THEN "c_refuse" ELSE "c_accept"]
    /\ running' = NoTask
    /\ UNCHANGED <<mgrVars, dArg, stale, chanVars, now, connectRet, everAdmitted, prevEntry,
                   acceptFailures, removals, nested, raised>>
    /\ UNCHANGED turnVars

\* await websocket.close(code=status.WS_1008_POLICY_VIOLATION); return False.
\* The lock is released on the way out, and websocket_endpoint returns
\* through its finally clause into manager.disconnect(websocket).
ConnectRefuse(ch) ==
    /\ running = NoTask
    /\ pc[ch] = "c_refuse"
    /\ wsState' = CloseWs(wsState, ch)
    /\ closeCode' = CloseCodeOf(closeCode, ch, WS_1008_POLICY_VIOLATION)
    /\ lockHolder' = NoTask
    /\ connectRet' = [connectRet EXCEPT ![ch] = "false"]
    /\ dArg' = [dArg EXCEPT ![ch] = ch]
    /\ pc' = [pc EXCEPT ![ch] = "d_enter"]
    /\ running' = ch
    /\ UNCHANGED <<active_connections, connection_times, cleanup_task, lockWaiters, stale,
                   clientUp, now, sawFull, everAdmitted, prevEntry, acceptFailures,
                   removals, nested, raised>>
    /\ UNCHANGED turnVars

\* Variant that spawns a sweep task on every admitted connect
NeedsCleanupTask_Always(task) == TRUE

\* if self._cleanup_task is None or self._cleanup_task.done()
NeedsCleanupTask(task) == task = NoTask \/ pc[task] = "done"

NewTaskId == Cardinality(DOMAIN pc) + 1

\* await websocket.accept() returns: the entry and its connect time are
\* recorded, the sweep task is created if there is none, connect returns True
\* and the session waits in receive_text.  Or accept raises: return False.
ConnectAccept(ch) ==
    /\ running = NoTask
    /\ pc[ch] = "c_accept"
    /\ lockHolder' = NoTask
    /\ \E ok \in BOOLEAN :
        IF ok
        THEN /\ wsState' = [wsState EXCEPT ![ch] = "open"]
             /\ active_connections' = Put(active_connections, ClientId(ch), ch)
             /\ connection_times' = Put(connection_times, ClientId(ch), now)
             /\ everAdmitted' = [everAdmitted EXCEPT ![ch] = TRUE]
             /\ connectRet' = [connectRet EXCEPT ![ch] = "true"]
             /\ IF NeedsCleanupTask(cleanup_task)
                THEN /\ cleanup_task' = NewTaskId
                     /\ pc' = [t \in (DOMAIN pc) \cup {NewTaskId} |->
                                 IF t = NewTaskId THEN "s_sleep"
                                 ELSE IF t = ch THEN "recv" ELSE pc[t]]
                     /\ dArg' = [t \in (DOMAIN pc) \cup {NewTaskId} |->
                                 IF t = NewTaskId THEN 0 ELSE dArg[t]]
                     /\ stale' = [t \in (DOMAIN pc) \cup {NewTaskId} |->
                                 IF t = NewTaskId THEN {} ELSE stale[t]]
                     /\ raised' = [t \in (DOMAIN pc) \cup {NewTaskId} |->
                                 IF t = NewTaskId THEN FALSE ELSE raised[t]]
                ELSE /\ pc' = [pc EXCEPT ![ch] = "recv"]
                     /\ UNCHANGED <<cleanup_task, dArg, stale, raised>>
             /\ running' = NoTask
             /\ UNCHANGED acceptFailures
        ELSE /\ connectRet' = [connectRet EXCEPT ![ch] = "false"]
             /\ acceptFailures' = 1
             /\ dArg' = [dArg EXCEPT ![ch] = ch]
             /\ pc' = [pc EXCEPT ![ch] = "d_enter"]
             /\ running' = ch
             /\ UNCHANGED <<active_connections, connection_times, cleanup_task, stale,
                            wsState, everAdmitted, raised>>
    /\ UNCHANGED <<lockWaiters, closeCode, clientUp, now, sawFull, prevEntry, removals, nested>>
    /\ UNCHANGED turnVars

\* ------------------------------------------------------------ /ws session
\* The peer goes away (the network closes the connection)
ClientDrop(ch) ==
    /\ running = NoTask
    /\ wsState[ch] = "open"
    /\ clientUp[ch]
    /\ clientUp' = [clientUp EXCEPT ![ch] = FALSE]
    /\ UNCHANGED <<mgrVars, taskVars, wsState, closeCode, now, histVars>>
    /\ UNCHANGED turnVars

\* Variant that stays in the loop after a failed receive
RecvFail_Continues(ch) ==
    /\ running = NoTask
    /\ pc[ch] = "recv"
    /\ ~Connected(ch)
    /\ lastTurn' = [lastTurn EXCEPT ![ch] = "broken"]
    /\ UNCHANGED <<mgrVars, taskVars, chanVars, now, histVars>>
    /\ UNCHANGED <<frame, upstream, pos, pending, sent, apiCalls, turns, metricsLog, prevTurn, streamsEnded>>
    /\ UNCHANGED <<caught, payload, request, cfgVars, chatVars>>

\* await websocket.receive_text() on a channel that is gone: either
\* WebSocketDisconnect (break) or, once a close was sent, a RuntimeError whose
\* error frame cannot be sent either; both paths end in the finally clause.
RecvFail(ch) ==
    /\ running = NoTask
    /\ pc[ch] = "recv"
    /\ ~Connected(ch)
    /\ dArg' = [dArg EXCEPT ![ch] = ch]
    /\ pc' = [pc EXCEPT ![ch] = "d_enter"]
    /\ running' = ch
    /\ UNCHANGED <<mgrVars, stale, chanVars, now, histVars>>
    /\ UNCHANGED turnVars

\* ------------------------------------------------------------ disconnect
\* manager.disconnect(websocket): async with self._lock
DisconnectEnter(t) ==
    /\ running = t
    /\ pc[t] = "d_enter"
    /\ TryAcquire(t, "d_locked", "d_wait")
    /\ UNCHANGED <<active_connections, connection_times, cleanup_task, dArg, stale,
                   chanVars, now, connectRet, sawFull, everAdmitted, prevEntry,
                   acceptFailures, removals, raised>>
    /\ UNCHANGED turnVars

\* Variant that deletes without looking: a KeyError for an absent identity
RemoveConnection_Unguarded(conns, id) ==
    [ok |-> id \in DOMAIN conns, d |-> IF id \in DOMAIN conns THEN Del(conns, id) ELSE conns]

\* if client_id in self.active_connections: del self.active_connections[client_id]
RemoveConnection(conns, id) ==
    [ok |-> TRUE, d |-> IF id \in DOMAIN conns THEN Del(conns, id) ELSE conns]

\* Variant of the removal that leaves the connect time behind
RemoveTime_Keeps(times, id) == times

\* if client_id in self.connection_times: del self.connection_times[client_id]
RemoveTime(times, id) == IF id \in DOMAIN times THEN Del(times, id) ELSE times

DisconnectRemove(t) ==
    /\ running = t
    /\ pc[t] = "d_locked"
    /\ LET id == ClientId(dArg[t])
           r == RemoveConnection(active_connections, id)
       IN  IF r.ok
           THEN /\ active_connections' = r.d
                /\ connection_times' = IF id \in DOMAIN active_connections
                                       THEN RemoveTime(connection_times, id)
                                       ELSE connection_times
                /\ removals' = IF id \in DOMAIN active_connections THEN 1 ELSE removals
                /\ pc' = [pc EXCEPT ![t] = "d_close"]
                /\ running' = NoTask
                /\ UNCHANGED <<lockHolder, raised>>
           ELSE \* a KeyError leaves the async with block and the call
                /\ raised' = [raised EXCEPT ![t] = TRUE]
                /\ lockHolder' = NoTask
                /\ pc' = [pc EXCEPT ![t] = IF IsSession(t) THEN "done" ELSE "s_sleep"]
                /\ running' = NoTask
                /\ UNCHANGED <<active_connections, connection_times, removals>>
    /\ UNCHANGED <<cleanup_task, lockWaiters, dArg, stale, chanVars, now, connectRet,
                   sawFull, everAdmitted, prevEntry, acceptFailures, nested>>
    /\ UNCHANGED turnVars

\* with contextlib.suppress(Exception): await websocket.close(); the lock is
\* released; a session is over, the sweep goes on with its stale list.
DisconnectClose(t) ==
    /\ running = NoTask
    /\ pc[t] = "d_close"
    /\ wsState' = CloseWs(wsState, dArg[t])
    /\ closeCode' = CloseCodeOf(closeCode, dArg[t], WS_1000_NORMAL_CLOSURE)
    /\ lockHolder' = NoTask
    /\ IF IsSession(t)
       THEN pc' = [pc EXCEPT ![t] = "done"] /\ running' = NoTask
       ELSE pc' = [pc EXCEPT ![t] = "s_loop"] /\ running' = t
    /\ UNCHANGED <<active_connections, connection_times, cleanup_task, lockWaiters, dArg,
                   stale, clientUp, now, histVars>>
    /\ UNCHANGED turnVars

\* ------------------------------------------------------------ get_connection_info
\* One client per key of active_connections, with
\* self.connection_times[client_id] looked up for it: a KeyError when the
\* connect time is missing.  duration is the age of the entry at time t.
get_connection_info(conns, times, t) ==
    IF \A id \in DOMAIN conns : id \in DOMAIN times
    THEN [raises |-> FALSE,
          total_connections |-> Size(conns),
          max_connections |-> MaxConnections,
          clients |-> [id \in DOMAIN conns |->
                          [connected_at |-> times[id], duration |-> t - times[id]]]]
    ELSE [raises |-> TRUE,
          total_connections |-> Size(conns),
          max_connections |-> MaxConnections,
          clients |-> [id \in {} |-> [connected_at |-> 0, duration |-> 0]]]

\* ------------------------------------------------------------ _periodic_cleanup
\* await asyncio.sleep(30) is over: async with self._lock
SweepWake(t) ==
    /\ running = NoTask
    /\ pc[t] = "s_sleep"
    /\ TryAcquire(t, "s_locked", "s_wait")
    /\ UNCHANGED <<active_connections, connection_times, cleanup_task, dArg, stale,
                   chanVars, now, connectRet, sawFull, everAdmitted, prevEntry,
                   acceptFailures, removals, raised>>
    /\ UNCHANGED turnVars

\* not ws.client_state.connected, or
\* (now - self.connection_times[client_id]).total_seconds() > self.timeout
IsStale(id) ==
    \/ ~Connected(active_connections[id])
    \/ now - connection_times[id] > Timeout

\* The scan of the table.  The read of client_state.connected on the channel
\* object either yields its value or raises (the attribute is not one the
\* transport's state enumeration is known to have), and a missing connect
\* time raises too: except Exception logs it and the loop sleeps again.
SweepScan(t) ==
    /\ running = t
    /\ pc[t] = "s_locked"
    /\ \/ /\ DOMAIN active_connections # {}
          /\ lockHolder' = NoTask
          /\ pc' = [pc EXCEPT ![t] = "s_sleep"]
          /\ running' = NoTask
          /\ UNCHANGED stale
       \/ /\ DOMAIN active_connections \subseteq DOMAIN connection_times
          /\ stale' = [stale EXCEPT ![t] = {id \in DOMAIN active_connections : IsStale(id)}]
          /\ pc' = [pc EXCEPT ![t] = "s_loop"]
          /\ running' = t
          /\ UNCHANGED lockHolder
    /\ UNCHANGED <<active_connections, connection_times, cleanup_task, lockWaiters, dArg,
                   chanVars, now, histVars>>
    /\ UNCHANGED turnVars

\* for client_id in stale_connections: if client_id in self.active_connections:
\*     await self.disconnect(self.active_connections[client_id])
SweepLoop(t) ==
    /\ running = t
    /\ pc[t] = "s_loop"
    /\ IF stale[t] = {}
       THEN /\ lockHolder' = NoTask
            /\ pc' = [pc EXCEPT ![t] = "s_sleep"]
            /\ running' = NoTask
            /\ UNCHANGED <<dArg, stale>>
       ELSE \E id \in stale[t] :
            /\ stale' = [stale EXCEPT ![t] = stale[t] \ {id}]
            /\ IF id \in DOMAIN active_connections
               THEN /\ dArg' = [dArg EXCEPT ![t] = active_connections[id]]
                    /\ pc' = [pc EXCEPT ![t] = "d_enter"]
               ELSE UNCHANGED <<dArg, pc>>
            /\ UNCHANGED <<lockHolder, running>>
    /\ UNCHANGED <<active_connections, connection_times, cleanup_task, lockWaiters,
                   chanVars, now, histVars>>
    /\ UNCHANGED turnVars

\* datetime.now() advances
Tick ==
    /\ running = NoTask
    /\ now < MaxTime
    /\ now' = now + 1
    /\ UNCHANGED <<mgrVars, taskVars, chanVars, histVars>>
    /\ UNCHANGED turnVars

\* ------------------------------------------------------------ /ws turn
\* What a client can put into one inbound frame: a text frame that is not
\* JSON, one that is JSON but no ChatRequest, a ChatRequest, a binary frame
FrameKinds == {"badjson", "badschema", "valid", "binary"}

\* receive_text: message["text"] of a frame without text raises KeyError
IsTextFrame(k) == k # "binary"
\* json.loads(data)
JsonLoads(k) == k # "badjson"
\* ChatRequest(**request_data)
IsChatRequest(k) == k = "valid"

\* data = await websocket.receive_text() returns a frame, which is parsed and
\* validated.  A frame that fails either check gets an error text and the
\* loop continues; a ChatRequest goes on to generate_chat_completion.
RecvFrameOf(ch, Requests) ==
    /\ running = NoTask
    /\ pc[ch] = "recv"
    /\ Connected(ch)
    /\ turns[ch] < MaxTurns
    /\ \E k \in FrameKinds :
        /\ frame' = [frame EXCEPT ![ch] = k]
        /\ IF IsTextFrame(k) /\ JsonLoads(k) /\ IsChatRequest(k)
           THEN \E msgs \in Requests : request' = [request EXCEPT ![ch] = msgs]
           ELSE request' = [request EXCEPT ![ch] = <<>>]
        /\ IF ~IsTextFrame(k)
           THEN /\ pending' = [pending EXCEPT ![ch] = "Error"]
                /\ pc' = [pc EXCEPT ![ch] = "send_generic_err"]
                /\ running' = NoTask
           ELSE IF ~JsonLoads(k)
           THEN /\ pending' = [pending EXCEPT ![ch] = "Invalid JSON format"]
                /\ pc' = [pc EXCEPT ![ch] = "send_fmt_err"]
                /\ running' = NoTask
           ELSE IF ~IsChatRequest(k)
           THEN /\ pending' = [pending EXCEPT ![ch] = "Invalid request format"]
                /\ pc' = [pc EXCEPT ![ch] = "send_fmt_err"]
                /\ running' = NoTask
           ELSE /\ pending' = [pending EXCEPT ![ch] = "none"]
                /\ pc' = [pc EXCEPT ![ch] = "gen"]
                /\ running' = ch
    /\ turns' = [turns EXCEPT ![ch] = @ + 1]
    /\ sent' = [sent EXCEPT ![ch] = <<>>]
    /\ apiCalls' = [apiCalls EXCEPT ![ch] = 0]
    /\ pos' = [pos EXCEPT ![ch] = 0]
    /\ upstream' = [upstream EXCEPT ![ch] = NoUpstream]
    /\ lastTurn' = [lastTurn EXCEPT ![ch] = "none"]
    /\ prevTurn' = [prevTurn EXCEPT ![ch] = lastTurn[ch]]
    /\ UNCHANGED <<mgrVars, dArg, stale, chanVars, now, histVars, metricsLog, streamsEnded>>
    /\ caught' = [caught EXCEPT ![ch] = NoError]
    /\ payload' = [payload EXCEPT ![ch] = NoPayload]
    /\ UNCHANGED <<cfgVars, chatVars>>

\* A frame of a client whose requests all carry the same one message
RecvFrame(ch) == RecvFrameOf(ch, {PlainRequest})

\* A send_text on a channel that is gone raises; whichever handler catches
\* it, the error frame it tries to send raises again, and the session ends
\* in the finally clause of websocket_endpoint.
SendFails(ch, how) ==
    /\ lastTurn' = [lastTurn EXCEPT ![ch] = how]
    /\ dArg' = [dArg EXCEPT ![ch] = ch]
    /\ pc' = [pc EXCEPT ![ch] = "d_enter"]
    /\ running' = ch
    /\ UNCHANGED <<sent, pending>>

\* Variant that leaves the receive loop after the error text (break for continue)
SendFormatError_Breaks(ch) ==
    /\ running = NoTask
    /\ pc[ch] = "send_fmt_err"
    /\ IF Connected(ch)
       THEN /\ sent' = [sent EXCEPT ![ch] = Append(@, pending[ch])]
            /\ pending' = [pending EXCEPT ![ch] = "none"]
            /\ lastTurn' = [lastTurn EXCEPT ![ch] = "malformed"]
            /\ dArg' = [dArg EXCEPT ![ch] = ch]
            /\ pc' = [pc EXCEPT ![ch] = "d_enter"]
            /\ running' = ch
       ELSE SendFails(ch, "broken")
    /\ UNCHANGED <<mgrVars, stale, chanVars, now, histVars,
                   frame, upstream, pos, apiCalls, turns, metricsLog, prevTurn, streamsEnded>>
    /\ UNCHANGED <<caught, payload, request, cfgVars, chatVars>>

\* await websocket.send_text(error_msg); continue      (lines 456, 464)
SendFormatError(ch) ==
    /\ running = NoTask
    /\ pc[ch] = "send_fmt_err"
    /\ IF Connected(ch)
       THEN /\ sent' = [sent EXCEPT ![ch] = Append(@, pending[ch])]
            /\ pending' = [pending EXCEPT ![ch] = "none"]
            /\ lastTurn' = [lastTurn EXCEPT ![ch] = "malformed"]
            /\ pc' = [pc EXCEPT ![ch] = "recv"]
            /\ running' = NoTask
            /\ UNCHANGED dArg
       ELSE SendFails(ch, "broken")
    /\ UNCHANGED <<mgrVars, stale, chanVars, now, histVars,
                   frame, upstream, pos, apiCalls, turns, metricsLog, prevTurn, streamsEnded>>
    /\ UNCHANGED <<caught, payload, request, cfgVars, chatVars>>

\* except Exception as e: await websocket.send_text(f"Error: {str(e)}")  (line 497)
SendGenericError(ch) ==
    /\ running = NoTask
    /\ pc[ch] = "send_generic_err"
    /\ IF Connected(ch)
       THEN /\ sent' = [sent EXCEPT ![ch] = Append(@, pending[ch])]
            /\ pending' = [pending EXCEPT ![ch] = "none"]
            /\ lastTurn' = [lastTurn EXCEPT ![ch] = "error"]
            /\ pc' = [pc EXCEPT ![ch] = "recv"]
            /\ running' = NoTask
            /\ UNCHANGED dArg
       ELSE SendFails(ch, "broken")
    /\ UNCHANGED <<mgrVars, stale, chanVars, now, histVars,
                   frame, upstream, pos, apiCalls, turns, metricsLog, prevTurn, streamsEnded>>
    /\ UNCHANGED <<caught, payload, request, cfgVars, chatVars>>

\* generate_chat_completion(stream=True) hands back its generator, and the
\* first step of the iteration runs client.chat.completions.create(...)
\* When generate_chat_completion raises instead, nothing was called and the
\* handler of line 485 has the error to send.
CallApiOf(ch, Ups) ==
    /\ running = ch
    /\ pc[ch] = "gen"
    /\ LET r == generate_chat_completion(BuildMessages(settings, request[ch]),
                                         settings, TRUE, "ok") IN
       IF r.exc # NoError
       THEN /\ caught' = [caught EXCEPT ![ch] = r.exc]
            /\ pending' = [pending EXCEPT ![ch] = "Error"]
            /\ pc' = [pc EXCEPT ![ch] = "send_api_err"]
            /\ running' = NoTask
            /\ UNCHANGED <<upstream, apiCalls, payload>>
       ELSE /\ \E up \in Ups : upstream' = [upstream EXCEPT ![ch] = up]
            /\ apiCalls' = [apiCalls EXCEPT ![ch] = @ + r.calls + 1]
            /\ payload' = [payload EXCEPT ![ch] = r.payload]
            /\ pc' = [pc EXCEPT ![ch] = "pull"]
            /\ UNCHANGED <<caught, pending, running>>
    /\ UNCHANGED <<mgrVars, dArg, stale, chanVars, now, histVars,
                   frame, pos, sent, turns, lastTurn, metricsLog, prevTurn, streamsEnded>>
    /\ UNCHANGED <<request, cfgVars, chatVars>>

\* The call with everything the upstream may do
CallApi(ch) == CallApiOf(ch, Upstreams)

\* An upstream that answers with one chunk, and one that raises at once
PlainUpstreams == {[chunks |-> <<"a">>, fails |-> FALSE], [chunks |-> <<>>, fails |-> TRUE]}

\* Variant of the filter that lets a delta without text through
HasContent_OnlyChoices(chunk) == chunk # "nochoices"

\* stream_generator: if chunk and chunk.choices and chunk.choices[0].delta.content
HasContent(chunk) == chunk \notin {"nochoices", "empty"}

\* async for content in stream_generator(stream): the next chunk is taken
\* from the upstream (a blocking iteration); text goes to send_text, a chunk
\* without text is skipped, the end of the stream ends the turn, and an
\* upstream error goes to the handler that sends f"Error: {str(e)}".
Pull(ch) ==
    /\ running = ch
    /\ pc[ch] = "pull"
    /\ LET up == upstream[ch] IN
       IF pos[ch] < Len(up.chunks)
       THEN /\ pos' = [pos EXCEPT ![ch] = @ + 1]
            /\ IF HasContent(up.chunks[pos[ch] + 1])
               THEN /\ pending' = [pending EXCEPT ![ch] = up.chunks[pos[ch] + 1]]
                    /\ pc' = [pc EXCEPT ![ch] = "send_chunk"]
                    /\ running' = NoTask
               ELSE UNCHANGED <<pending, pc, running>>
            /\ UNCHANGED <<lastTurn, streamsEnded, caught>>
       ELSE IF up.fails
       THEN /\ caught' = [caught EXCEPT ![ch] = UpstreamError]
            /\ pending' = [pending EXCEPT ![ch] = "Error"]
            /\ pc' = [pc EXCEPT ![ch] = "send_api_err"]
            /\ running' = NoTask
            /\ streamsEnded' = streamsEnded + 1
            /\ UNCHANGED <<pos, lastTurn>>
       ELSE /\ lastTurn' = [lastTurn EXCEPT ![ch] = "relayed"]
            /\ pc' = [pc EXCEPT ![ch] = "recv"]
            /\ running' = NoTask
            /\ streamsEnded' = streamsEnded + 1
            /\ UNCHANGED <<pos, pending, caught>>
    /\ UNCHANGED <<mgrVars, dArg, stale, chanVars, now, histVars,
                   frame, upstream, sent, apiCalls, turns, metricsLog, prevTurn>>
    /\ UNCHANGED <<payload, request, cfgVars, chatVars>>

\* Variant that swallows a failed send and goes on with the next fragment
SendChunk_Swallows(ch) ==
    /\ running = NoTask
    /\ pc[ch] = "send_chunk"
    /\ IF Connected(ch)
       THEN /\ sent' = [sent EXCEPT ![ch] = Append(@, pending[ch])]
            /\ UNCHANGED lastTurn
       ELSE /\ lastTurn' = [lastTurn EXCEPT ![ch] = "broken"]
            /\ UNCHANGED sent
    /\ pending' = [pending EXCEPT ![ch] = "none"]
    /\ pc' = [pc EXCEPT ![ch] = "pull"]
    /\ running' = ch
    /\ UNCHANGED <<mgrVars, dArg, stale, chanVars, now, histVars,
                   frame, upstream, pos, apiCalls, turns, metricsLog, prevTurn, streamsEnded>>
    /\ UNCHANGED <<caught, payload, request, cfgVars, chatVars>>

\* await websocket.send_text(content)                  (line 483)
SendChunk(ch) ==
    /\ running = NoTask
    /\ pc[ch] = "send_chunk"
    /\ IF Connected(ch)
       THEN /\ sent' = [sent EXCEPT ![ch] = Append(@, pending[ch])]
            /\ pending' = [pending EXCEPT ![ch] = "none"]
            /\ pc' = [pc EXCEPT ![ch] = "pull"]
            /\ running' = ch
            /\ UNCHANGED <<dArg, lastTurn, streamsEnded>>
       ELSE SendFails(ch, "broken") /\ streamsEnded' = streamsEnded + 1
    /\ UNCHANGED <<mgrVars, stale, chanVars, now, histVars,
                   frame, upstream, pos, apiCalls, turns, metricsLog, prevTurn>>
    /\ UNCHANGED <<caught, payload, request, cfgVars, chatVars>>

\* Variant that ends the session after the error text
SendApiError_Breaks(ch) ==
    /\ running = NoTask
    /\ pc[ch] = "send_api_err"
    /\ IF Connected(ch)
       THEN /\ sent' = [sent EXCEPT ![ch] = Append(@, pending[ch])]
            /\ pending' = [pending EXCEPT ![ch] = "none"]
            /\ lastTurn' = [lastTurn EXCEPT ![ch] = "api_error"]
            /\ dArg' = [dArg EXCEPT ![ch] = ch]
            /\ pc' = [pc EXCEPT ![ch] = "d_enter"]
            /\ running' = ch
       ELSE SendFails(ch, "broken")
    /\ UNCHANGED <<mgrVars, stale, chanVars, now, histVars,
                   frame, upstream, pos, apiCalls, turns, metricsLog, prevTurn, streamsEnded>>
    /\ UNCHANGED <<caught, payload, request, cfgVars, chatVars>>

\* except Exception as e: await websocket.send_text(f"Error: {str(e)}")  (line 489)
SendApiError(ch) ==
    /\ running = NoTask
    /\ pc[ch] = "send_api_err"
    /\ IF Connected(ch)
       THEN /\ sent' = [sent EXCEPT ![ch] = Append(@, pending[ch])]
            /\ pending' = [pending EXCEPT ![ch] = "none"]
            /\ lastTurn' = [lastTurn EXCEPT ![ch] = "api_error"]
            /\ pc' = [pc EXCEPT ![ch] = "recv"]
            /\ running' = NoTask
            /\ UNCHANGED dArg
       ELSE SendFails(ch, "broken")
    /\ UNCHANGED <<mgrVars, stale, chanVars, now, histVars,
                   frame, upstream, pos, apiCalls, turns, metricsLog, prevTurn, streamsEnded>>
    /\ UNCHANGED <<caught, payload, request, cfgVars, chatVars>>

\* ------------------------------------------------------------ POST /chat
\* Variant whose handler catches HTTPException only: any other exception
\* is answered by the framework's plain 500
ChatOf_OnlyHTTPException(Requests) ==
    /\ running = NoTask
    /\ cfgPc = "serving"
    /\ \E up \in ChatUpstreams, msgs \in Requests :
        LET r == generate_chat_completion(BuildMessages(settings, msgs),
                                          settings, FALSE, up)
            e == IF r.exc # NoError THEN r.exc
                 ELSE IF r.result = "malformed"
                 THEN [type |-> "IndexError", status |-> 0,
                       detail |-> <<"list index out of range">>]
                 ELSE NoError
        IN
        /\ chatRequest' = msgs
        /\ chatCalls' = r.calls
        /\ chatPayload' = r.payload
        /\ chatUpstream' = IF r.calls > 0 THEN up ELSE "none"
        /\ chatCaught' = IF e.type = "HTTPException" THEN e ELSE NoError
        /\ IF e # NoError
           THEN /\ chatStatus' = HTTP_500_INTERNAL_SERVER_ERROR
                /\ chatDetail' = IF e.type = "HTTPException" THEN StrOf(e) ELSE <<>>
           ELSE /\ chatStatus' = 200
                /\ chatDetail' = <<>>
    /\ UNCHANGED <<mgrVars, taskVars, chanVars, now, histVars>>
    /\ UNCHANGED <<frame, upstream, pos, pending, sent, apiCalls, turns, lastTurn,
                   metricsLog, prevTurn, streamsEnded, caught, payload, request, cfgVars>>

\* chat(request): one call of generate_chat_completion(stream=False), then
\* completion.choices[0].message.content; every exception is answered by
\* HTTPException(500).  The handler never suspends.
ChatOf(Requests) ==
    /\ running = NoTask
    /\ cfgPc = "serving"
    /\ \E up \in ChatUpstreams, msgs \in Requests :
        LET r == generate_chat_completion(BuildMessages(settings, msgs),
                                          settings, FALSE, up)
            e == IF r.exc # NoError THEN r.exc
                 ELSE IF r.result = "malformed"
                 THEN [type |-> "IndexError", status |-> 0,
                       detail |-> <<"list index out of range">>]
                 ELSE NoError
        IN
        /\ chatRequest' = msgs
        /\ chatCalls' = r.calls
        /\ chatPayload' = r.payload
        /\ chatUpstream' = IF r.calls > 0 THEN up ELSE "none"
        /\ chatCaught' = e
        /\ IF e # NoError
           THEN /\ chatStatus' = HTTP_500_INTERNAL_SERVER_ERROR
                /\ chatDetail' = StrOf(e)
           ELSE /\ chatStatus' = 200
                /\ chatDetail' = <<>>
    /\ UNCHANGED <<mgrVars, taskVars, chanVars, now, histVars>>
    /\ UNCHANGED <<frame, upstream, pos, pending, sent, apiCalls, turns, lastTurn,
                   metricsLog, prevTurn, streamsEnded, caught, payload, request, cfgVars>>

\* A /chat request with the one-message request
Chat == ChatOf({PlainRequest})

\* ------------------------------------------------------------ start-up
\* from config import settings: settings = get_settings() = Settings()
LoadSettings ==
    /\ cfgPc = "import_config"
    /\ settings' = ResolveSettings(env)
    /\ cfgPc' = IF ResolveSettings(env).state = "ok" THEN "import_main" ELSE "failed"
    /\ UNCHANGED <<mgrVars, taskVars, chanVars, now, histVars>>
    /\ UNCHANGED <<frame, upstream, pos, pending, sent, apiCalls, turns, lastTurn,
                   metricsLog, prevTurn, streamsEnded, caught, payload, request, chatVars,
                   env, allowed_origins, corsCheck>>

\* allowed_origins = get_allowed_origins()               (main.py line 58)
ImportMain ==
    /\ cfgPc = "import_main"
    /\ allowed_origins' = get_allowed_origins(settings.cors_origins)
    /\ cfgPc' = "serving"
    /\ UNCHANGED <<mgrVars, taskVars, chanVars, now, histVars>>
    /\ UNCHANGED <<frame, upstream, pos, pending, sent, apiCalls, turns, lastTurn,
                   metricsLog, prevTurn, streamsEnded, caught, payload, request, chatVars,
                   env, settings, corsCheck>>

\* cors_middleware for a request with (or without) an Origin header; the
\* requests examined are counted up to MaxRequests
CorsCheck(origin) ==
    /\ running = NoTask
    /\ cfgPc = "serving"
    /\ corsCheck.requests < MaxRequests
    /\ corsCheck' = [requests |-> corsCheck.requests + 1, origin |-> origin,
                     allowed |-> is_origin_allowed(origin, allowed_origins)]
    /\ UNCHANGED <<mgrVars, taskVars, chanVars, now, histVars>>
    /\ UNCHANGED <<frame, upstream, pos, pending, sent, apiCalls, turns, lastTurn,
                   metricsLog, prevTurn, streamsEnded, caught, payload, request, chatVars,
                   env, settings, cfgPc, allowed_origins>>

\* ------------------------------------------------------------ specification
Next ==
    \/ \E ch \in Channels : ConnectEnter(ch)
    \/ \E ch \in Channels : ConnectCheckExisting(ch)
    \/ \E ch \in Channels : ConnectCloseOld(ch)
    \/ \E ch \in Channels : ConnectLimit(ch)
    \/ \E ch \in Channels : ConnectRefuse(ch)
    \/ \E ch \in Channels : ConnectAccept(ch)
    \/ \E ch \in Channels : ClientDrop(ch)
    \/ \E ch \in Channels : RecvFail(ch)
    \/ \E t \in Tasks : LockAcquired(t)
    \/ \E t \in Tasks : DisconnectEnter(t)
    \/ \E t \in Tasks : DisconnectRemove(t)
    \/ \E t \in Tasks : DisconnectClose(t)
    \/ \E t \in SweepTasks : SweepWake(t)
    \/ \E t \in SweepTasks : SweepScan(t)
    \/ \E t \in SweepTasks : SweepLoop(t)
    \/ Tick

Spec == Init /\ [][Next]_vars

\* One /ws session and its turns; the sweep task sleeps throughout
WsChannels == {1}

NextWs ==
    \/ \E ch \in WsChannels : ConnectEnter(ch)
    \/ \E ch \in WsChannels : ConnectCheckExisting(ch)
    \/ \E ch \in WsChannels : ConnectLimit(ch)
    \/ \E ch \in WsChannels : ConnectAccept(ch)
    \/ \E ch \in WsChannels : ClientDrop(ch)
    \/ \E ch \in WsChannels : RecvFail(ch)
    \/ \E ch \in WsChannels : RecvFrame(ch)
    \/ \E ch \in WsChannels : SendFormatError(ch)
    \/ \E ch \in WsChannels : SendGenericError(ch)
    \/ \E ch \in WsChannels : CallApi(ch)
    \/ \E ch \in WsChannels : Pull(ch)
    \/ \E ch \in WsChannels : SendChunk(ch)
    \/ \E ch \in WsChannels : SendApiError(ch)
    \/ \E ch \in WsChannels : DisconnectEnter(ch)
    \/ \E ch \in WsChannels : DisconnectRemove(ch)
    \/ \E ch \in WsChannels : DisconnectClose(ch)

SpecWs == Init /\ [][NextWs]_vars

\* The event loop runs every task that is ready: a session that has entered
\* connect, and the sweep task, each take their next step when they can.
\* (Only one sweep task is ever created; its id is NumChannels + 1.)
SessionStep(ch) ==
    \/ ConnectCheckExisting(ch)
    \/ ConnectCloseOld(ch)
    \/ ConnectLimit(ch)
    \/ ConnectRefuse(ch)
    \/ ConnectAccept(ch)
    \/ RecvFail(ch)
    \/ LockAcquired(ch)
    \/ DisconnectEnter(ch)
    \/ DisconnectRemove(ch)
    \/ DisconnectClose(ch)

SweepStep(t) ==
    /\ t \in SweepTasks
    /\ \/ SweepWake(t)
       \/ SweepScan(t)
       \/ SweepLoop(t)
       \/ LockAcquired(t)
       \/ DisconnectEnter(t)
       \/ DisconnectRemove(t)
       \/ DisconnectClose(t)

FairSpec ==
    /\ Spec
    /\ \A ch \in Channels : SF_vars(SessionStep(ch))
    /\ SF_vars(SweepStep(NumChannels + 1))

\* A state the program is in after one other client (channel 2) was admitted
\* and waits idle in receive_text: its entry fills a table of size 1.
OtherChannel == 2

InitBusy ==
    /\ active_connections = Put(EmptyDict, ClientId(OtherChannel), OtherChannel)
    /\ connection_times = Put(EmptyDict, ClientId(OtherChannel), 0)
    /\ cleanup_task = NumChannels + 1
    /\ lockHolder = NoTask
    /\ lockWaiters = <<>>
    /\ pc = [t \in Channels \cup {NumChannels + 1} |->
                IF t = NumChannels + 1 THEN "s_sleep"
                ELSE IF t = OtherChannel THEN "recv" ELSE "start"]
    /\ running = NoTask
    /\ dArg = [t \in Channels \cup {NumChannels + 1} |->
                IF t = NumChannels + 1 THEN 0 ELSE t]
    /\ stale = [t \in Channels \cup {NumChannels + 1} |-> {}]
    /\ wsState = [ch \in Channels |-> IF ch = OtherChannel THEN "open" ELSE "new"]
    /\ closeCode = [ch \in Channels |-> 0]
    /\ clientUp = [ch \in Channels |-> TRUE]
    /\ now = 0
    /\ connectRet = [ch \in Channels |-> IF ch = OtherChannel THEN "true" ELSE "none"]
    /\ sawFull = [ch \in Channels |-> FALSE]
    /\ everAdmitted = [ch \in Channels |-> ch = OtherChannel]
    /\ prevEntry = [ch \in Channels |-> 0]
    /\ acceptFailures = 0
    /\ removals = 0
    /\ nested = FALSE
    /\ raised = [t \in Channels \cup {NumChannels + 1} |-> FALSE]
    /\ frame = [ch \in Channels |-> "none"]
    /\ upstream = [ch \in Channels |-> NoUpstream]
    /\ pos = [ch \in Channels |-> 0]
    /\ pending = [ch \in Channels |-> "none"]
    /\ sent = [ch \in Channels |-> <<>>]
    /\ apiCalls = [ch \in Channels |-> 0]
    /\ turns = [ch \in Channels |-> 0]
    /\ lastTurn = [ch \in Channels |-> "none"]
    /\ metricsLog = <<>>
    /\ prevTurn = [ch \in Channels |-> "none"]
    /\ streamsEnded = 0
    /\ Loaded(DefaultEnv)

\* The steps of a /ws session that the event loop runs when it is ready
\* (everything but the peer's own ClientDrop)
WsStep(ch) ==
    \/ ConnectCheckExisting(ch)
    \/ ConnectLimit(ch)
    \/ ConnectRefuse(ch)
    \/ ConnectAccept(ch)
    \/ RecvFail(ch)
    \/ SendFormatError(ch)
    \/ SendGenericError(ch)
    \/ CallApi(ch)
    \/ Pull(ch)
    \/ SendChunk(ch)
    \/ SendApiError(ch)
    \/ DisconnectEnter(ch)
    \/ DisconnectRemove(ch)
    \/ DisconnectClose(ch)

NextWsBusy ==
    \/ NextWs
    \/ \E ch \in WsChannels : ConnectRefuse(ch)

\* One /ws session, started either on an empty table or next to an idle
\* client, under the event loop's scheduling
FairSpecWs ==
    /\ Init \/ InitBusy
    /\ [][NextWsBusy]_vars
    /\ \A ch \in WsChannels : SF_vars(WsStep(ch))

\* The turns of a /ws session whose client stays connected, and /chat
\* requests, on a server started with any environment Settings() accepts
InitRelay ==
    /\ InitServer
    /\ \E e \in VectorEnvs : ResolveSettings(e).state = "ok" /\ Loaded(e)

NextRelay ==
    \/ \E ch \in WsChannels : ConnectEnter(ch)
    \/ \E ch \in WsChannels : ConnectCheckExisting(ch)
    \/ \E ch \in WsChannels : ConnectLimit(ch)
    \/ \E ch \in WsChannels : ConnectAccept(ch)
    \/ \E ch \in WsChannels : RecvFrame(ch)
    \/ \E ch \in WsChannels : SendFormatError(ch)
    \/ \E ch \in WsChannels : SendGenericError(ch)
    \/ \E ch \in WsChannels : CallApi(ch)
    \/ \E ch \in WsChannels : Pull(ch)
    \/ \E ch \in WsChannels : SendChunk(ch)
    \/ \E ch \in WsChannels : SendApiError(ch)
    \/ Chat

SpecRelay == InitRelay /\ [][NextRelay]_vars

\* The turns of a /ws session whose client stays connected, and /chat
\* requests, with every request of up to MaxMsgs messages and a short answer
NextMsg ==
    \/ \E ch \in WsChannels : ConnectEnter(ch)
    \/ \E ch \in WsChannels : ConnectCheckExisting(ch)
    \/ \E ch \in WsChannels : ConnectLimit(ch)
    \/ \E ch \in WsChannels : ConnectAccept(ch)
    \/ \E ch \in WsChannels : RecvFrameOf(ch, ChatRequests)
    \/ \E ch \in WsChannels : SendFormatError(ch)
    \/ \E ch \in WsChannels : SendGenericError(ch)
    \/ \E ch \in WsChannels : CallApiOf(ch, PlainUpstreams)
    \/ \E ch \in WsChannels : Pull(ch)
    \/ \E ch \in WsChannels : SendChunk(ch)
    \/ \E ch \in WsChannels : SendApiError(ch)
    \/ ChatOf(ChatRequests)

SpecMsg == Init /\ [][NextMsg]_vars

\* Start-up from any environment, then CORS checks of requests
InitCfg ==
    /\ InitServer
    /\ env \in VectorEnvs \cup CorsEnvs
    /\ settings = Unloaded
    /\ cfgPc = "import_config"
    /\ allowed_origins = {}
    /\ corsCheck = [requests |-> 0, origin |-> <<>>, allowed |-> FALSE]
    /\ caught = [ch \in Channels |-> NoError]
    /\ payload = [ch \in Channels |-> NoPayload]
    /\ request = [ch \in Channels |-> <<>>]
    /\ chatStatus = 0
    /\ chatCaught = NoError
    /\ chatCalls = 0
    /\ chatPayload = NoPayload
    /\ chatRequest = <<>>
    /\ chatUpstream = "none"
    /\ chatDetail = <<>>

NextCfg ==
    \/ LoadSettings
    \/ ImportMain
    \/ \E origin \in RequestOrigins : CorsCheck(origin)

SpecCfg == InitCfg /\ [][NextCfg]_vars

TypeOK ==
    /\ DOMAIN active_connections \subseteq Idents
    /\ \A id \in DOMAIN active_connections : active_connections[id] \in Channels
    /\ lockHolder \in {NoTask} \cup Tasks
    /\ running \in {NoTask} \cup Tasks

\* ============================================================== claims
Called == {ch \in Channels : pc[ch] # "start"}
Returned == {ch \in Channels : connectRet[ch] # "none"}
DistinctIdents(S) == \A c1, c2 \in S : c1 # c2 => ClientId(c1) # ClientId(c2)
InTable(ch) == \E id \in DOMAIN active_connections : active_connections[id] = ch

\* C1: with max_connections = M, once connect has returned for more than M
\* identities, all connects so far being for distinct identities (every accept
\* went through, no entry was removed by a disconnect), the table holds
\* exactly M entries; and a connect that found M
\* entries at its limit check is closed with code 1008, returns False and
\* never gets an entry.
C1_LimitRefuses ==
    /\ \A ch \in Channels :
          sawFull[ch] =>
              /\ pc[ch] # "c_accept"
              /\ ~everAdmitted[ch]
              /\ ~InTable(ch)
              /\ connectRet[ch] # "true"
              /\ connectRet[ch] = "false" => closeCode[ch] = WS_1008_POLICY_VIOLATION
    /\ (/\ Cardinality(Returned) > MaxConnections
        /\ DistinctIdents(Called)
        /\ acceptFailures = 0
        /\ removals = 0)
           => Size(active_connections) = MaxConnections

C1_Witness ==
    /\ Cardinality(Returned) > MaxConnections
    /\ DistinctIdents(Called)
    /\ acceptFailures = 0
    /\ removals = 0
    /\ Size(active_connections) = MaxConnections
    /\ \E ch \in Channels :
          sawFull[ch] /\ connectRet[ch] = "false" /\ closeCode[ch] = WS_1008_POLICY_VIOLATION

\* C2: in every reachable state the active table has at most max_connections
\* entries, whatever the interleaving of connects, reconnects, disconnects and
\* sweep passes.
C2_NeverAboveMax == Size(active_connections) <= MaxConnections

C2_Witness ==
    /\ Size(active_connections) = MaxConnections
    /\ removals = 1
    /\ \E ch \in Channels : prevEntry[ch] # 0 /\ InTable(ch)
    /\ \E t \in SweepTasks : pc[t] # "s_sleep"

\* C3: every entry of the table is filed under the identity of its channel
\* (one entry per identity), and when a connect whose identity already had an
\* entry returns, that old channel is closed and no longer in the table; when
\* it returns True (the accept went through), the entry of the identity is
\* the new channel.
C3_ReconnectReplaces ==
    /\ [](\A id \in DOMAIN active_connections : ClientId(active_connections[id]) = id)
    /\ [][\A ch \in Channels :
            (connectRet[ch] = "none" /\ connectRet'[ch] # "none" /\ prevEntry[ch] # 0) =>
                /\ wsState'[prevEntry[ch]] = "closed"
                /\ ~(\E id \in DOMAIN active_connections' :
                        active_connections'[id] = prevEntry[ch])
                /\ connectRet'[ch] = "true" =>
                       /\ ClientId(ch) \in DOMAIN active_connections'
                       /\ active_connections'[ClientId(ch)] = ch]_vars

C3_Witness ==
    \E ch \in Channels :
        /\ prevEntry[ch] # 0
        /\ connectRet[ch] = "true"
        /\ InTable(ch)
        /\ wsState[prevEntry[ch]] = "closed"
        /\ pc[prevEntry[ch]] = "recv"

\* C4: once the sweep task exists, an entry whose channel reports not
\* connected, or whose age exceeds the timeout, is eventually (by the next
\* sweep pass) out of the active table.
C4_StaleEntryRemoved ==
    \A id \in Idents :
        (/\ cleanup_task # NoTask
         /\ id \in DOMAIN active_connections
         /\ id \in DOMAIN connection_times
         /\ IsStale(id))
            ~> (id \notin DOMAIN active_connections)

\* C5: the table changes only in a step of the task that holds the lock, and
\* no task asks for the lock while it holds it.
C5_SingleLockNoNesting ==
    /\ [](~nested)
    /\ [][(active_connections' # active_connections \/ connection_times' # connection_times)
            => (lockHolder # NoTask /\ running' \in {NoTask, lockHolder})]_vars

\* C6: no sweep task exists after construction; a sweep task is created only
\* in the step in which a connect returns True (never by a refused connect or
\* one whose accept failed); and at most one unfinished sweep task exists.
C6_SweepLazySingleton ==
    /\ SweepTasks = {} /\ cleanup_task = NoTask
    /\ [](Cardinality({t \in SweepTasks : pc[t] # "done"}) <= 1)
    /\ [][(DOMAIN pc' # DOMAIN pc) =>
            /\ \E ch \in Channels : connectRet[ch] = "none" /\ connectRet'[ch] = "true"
            /\ \A t \in SweepTasks : pc[t] = "done"]_vars

C6_Witness ==
    /\ Cardinality(SweepTasks) = 1
    /\ Cardinality({ch \in Channels : everAdmitted[ch]}) >= 2
    /\ \E ch \in Channels : connectRet[ch] = "false"

\* C7: disconnect never raises; when it has looked at the table, the identity
\* of its channel has no entry and every other entry is as before; called for
\* an identity that has no entry (a second call, a channel never admitted) it
\* leaves both dictionaries exactly as they are; and it ends by closing the
\* channel.
C7_DisconnectIdempotent ==
    /\ [](\A t \in Tasks : ~raised[t])
    /\ [][\A t \in Tasks :
            (pc[t] = "d_locked" /\ pc'[t] # "d_locked") =>
                LET id == ClientId(dArg[t]) IN
                /\ pc'[t] = "d_close"
                /\ id \notin DOMAIN active_connections'
                /\ id \notin DOMAIN connection_times'
                /\ \A x \in DOMAIN active_connections \ {id} :
                      /\ x \in DOMAIN active_connections'
                      /\ active_connections'[x] = active_connections[x]
                /\ id \notin DOMAIN active_connections =>
                      /\ active_connections' = active_connections
                      /\ connection_times' = connection_times]_vars
    /\ [][\A t \in Tasks :
            (pc[t] = "d_close" /\ pc'[t] # "d_close") =>
                /\ wsState'[dArg[t]] = "closed"
                /\ active_connections' = active_connections
                /\ connection_times' = connection_times]_vars

C7_Witness ==
    \E c1, c2 \in Channels :
        /\ pc[c1] = "done" /\ everAdmitted[c1] /\ removals = 1
        /\ pc[c2] = "done" /\ ~everAdmitted[c2]
        /\ ClientId(c1) \notin DOMAIN active_connections

\* The texts of the fragments of a sequence that carry text, in order
IsText(c) == c \in {"a", "b"}
NonEmptyTexts(chunks) == SelectSeq(chunks, IsText)
Taken(ch) == SubSeq(upstream[ch].chunks, 1, pos[ch])

\* C8: in a streaming turn the text frames sent are, at every moment, the
\* texts of the non-empty fragments taken from the upstream so far, in
\* upstream order; when the stream has ended normally the channel has received
\* exactly the N non-empty texts, and fragments without text caused no send.
C8_RelayInOrder ==
    \A ch \in Channels :
        /\ pc[ch] = "pull" => sent[ch] = NonEmptyTexts(Taken(ch))
        /\ pc[ch] = "send_chunk" => Append(sent[ch], pending[ch]) = NonEmptyTexts(Taken(ch))
        /\ (pc[ch] = "recv" /\ lastTurn[ch] = "relayed") =>
              /\ sent[ch] = NonEmptyTexts(upstream[ch].chunks)
              /\ Len(sent[ch]) = Cardinality({i \in DOMAIN upstream[ch].chunks :
                                                 IsText(upstream[ch].chunks[i])})

C8_Witness ==
    \E ch \in Channels :
        /\ pc[ch] = "recv"
        /\ lastTurn[ch] = "relayed"
        /\ Len(upstream[ch].chunks) = MaxFrags
        /\ Len(sent[ch]) = 2
        /\ sent[ch][1] # sent[ch][2]

\* C9: every stream that has ended, normally or with an error, has left
\* exactly one summary metrics record, and after a stream of N non-empty
\* fragments that record says chunk_count = N.
C9_OneMetricsRecord ==
    /\ Len(metricsLog) = streamsEnded
    /\ \A ch \in Channels :
          (pc[ch] = "recv" /\ lastTurn[ch] = "relayed") =>
              /\ metricsLog # <<>>
              /\ metricsLog[Len(metricsLog)].chunk_count = Len(NonEmptyTexts(upstream[ch].chunks))

\* C10: a text frame that is not JSON, or is JSON but no ChatRequest, is
\* answered with exactly one error text and no call of the completion API,
\* and the session, still admitted, is back in receive_text.
C10_MalformedKeepsSession ==
    /\ [](\A ch \in Channels :
            frame[ch] \in {"badjson", "badschema"} =>
                /\ apiCalls[ch] = 0
                /\ pc[ch] \notin {"gen", "pull", "send_chunk", "send_api_err", "send_generic_err"}
                /\ pc[ch] = "send_fmt_err" => sent[ch] = <<>>
                /\ lastTurn[ch] = "malformed" =>
                      sent[ch] = <<IF frame[ch] = "badjson" THEN "Invalid JSON format"
                                   ELSE "Invalid request format">>)
    /\ [][\A ch \in Channels :
            (pc[ch] = "send_fmt_err" /\ Connected(ch) /\ pc'[ch] # "send_fmt_err") =>
                /\ pc'[ch] = "recv"
                /\ running' = NoTask
                /\ lastTurn'[ch] = "malformed"
                /\ wsState'[ch] = "open"
                /\ InTable(ch)'
                /\ Len(sent'[ch]) = 1]_vars

C10_Witness ==
    \E ch \in Channels :
        /\ prevTurn[ch] = "malformed"
        /\ lastTurn[ch] = "relayed"
        /\ pc[ch] = "recv"
        /\ sent[ch] # <<>>
        /\ wsState[ch] = "open"

\* C11: when the completion fails in a /ws turn, before the first fragment or
\* after some, and the channel is still usable, the turn ends with one error
\* text after the fragments already relayed, and the session is back in
\* receive_text: its channel is open, not closed, and still in the table.
C11_UpstreamErrorInBand ==
    /\ [](\A ch \in Channels :
            lastTurn[ch] = "api_error" =>
                /\ sent[ch] # <<>>
                /\ sent[ch][Len(sent[ch])] = "Error"
                /\ SubSeq(sent[ch], 1, Len(sent[ch]) - 1) = NonEmptyTexts(Taken(ch)))
    /\ [][\A ch \in Channels :
            (pc[ch] = "send_api_err" /\ Connected(ch) /\ pc'[ch] # "send_api_err") =>
                /\ pc'[ch] = "recv"
                /\ running' = NoTask
                /\ lastTurn'[ch] = "api_error"
                /\ wsState'[ch] = "open"
                /\ closeCode'[ch] = 0
                /\ InTable(ch)']_vars

C11_Witness ==
    \E ch \in Channels :
        /\ prevTurn[ch] = "api_error"
        /\ lastTurn[ch] = "api_error"
        /\ pc[ch] = "recv"
        /\ Len(sent[ch]) >= 2
        /\ wsState[ch] = "open"
        /\ InTable(ch)

\* C13: once the send of a fragment has failed, the stream is abandoned: the
\* session never takes or sends another fragment and goes to its cleanup.
C13_NoSendAfterFailure ==
    /\ [](\A ch \in Channels :
            lastTurn[ch] = "broken" =>
                pc[ch] \in {"d_enter", "d_wait", "d_locked", "d_close", "done"})
    /\ [][\A ch \in Channels :
            lastTurn[ch] = "broken" => (sent'[ch] = sent[ch] /\ pos'[ch] = pos[ch])]_vars

C13_Witness ==
    \E ch \in Channels :
        /\ lastTurn[ch] = "broken"
        /\ frame[ch] = "valid"
        /\ Len(sent[ch]) >= 1
        /\ pos[ch] < Len(upstream[ch].chunks)
        /\ HasContent(upstream[ch].chunks[pos[ch] + 1])
        /\ pc[ch] = "done"

InLoop(ch) == pc[ch] \in {"recv", "gen", "pull", "send_chunk", "send_api_err",
                          "send_fmt_err", "send_generic_err"}

DisconnectCalled(ch) == pc[ch] \in {"d_enter", "d_wait", "d_locked", "d_close", "done"}

\* C12: a session whose channel has become unusable while it is in its loop
\* eventually leaves the loop into manager.disconnect(websocket), and so does
\* a session whose connect returned False; whenever a session leaves its loop
\* it is into the disconnect of its own channel, and once a session has ended
\* the table holds no entry for its channel.
C12_UnusableChannelCleanedUp ==
    /\ \A ch \in Channels :
          (InLoop(ch) /\ ~Connected(ch)) ~> DisconnectCalled(ch)
    /\ \A ch \in Channels :
          (connectRet[ch] = "false") ~> DisconnectCalled(ch)
    /\ [][\A ch \in Channels :
            (~DisconnectCalled(ch) /\ DisconnectCalled(ch)') =>
                (pc'[ch] = "d_enter" /\ dArg'[ch] = ch)]_vars
    /\ [](\A ch \in Channels : pc[ch] = "done" => ~InTable(ch))

C12_Witness ==
    \E ch \in Channels :
        /\ pc[ch] = "done"
        /\ everAdmitted[ch]
        /\ ~clientUp[ch]
        /\ lastTurn[ch] = "broken"
        /\ removals = 1
        /\ ~InTable(ch)

C12_WitnessRefused ==
    \E ch \in Channels :
        /\ pc[ch] = "done"
        /\ connectRet[ch] = "false"
        /\ sawFull[ch]
        /\ ~InTable(ch)

\* C14: no completion is retried: in every /ws turn and in every /chat
\* request client.chat.completions.create is called at most once, and exactly
\* once, not more, when that call or its stream raised.
C14_NeverRetried ==
    /\ \A ch \in Channels :
          /\ apiCalls[ch] <= 1
          /\ caught[ch] = UpstreamError => apiCalls[ch] = 1
    /\ chatCalls <= 1
    /\ chatCaught = WrapError(UpstreamError) => chatCalls = 1

C14_Witness ==
    /\ \E ch \in Channels :
          /\ lastTurn[ch] = "api_error"
          /\ caught[ch] = UpstreamError
          /\ apiCalls[ch] = 1
    /\ chatStatus = HTTP_500_INTERNAL_SERVER_ERROR
    /\ chatCaught = WrapError(UpstreamError)
    /\ chatCalls = 1

\* The exception is the typed upstream error and carries the API's message
IsTypedUpstreamError(e) ==
    /\ e.type = "HTTPException"
    /\ e.status = HTTP_500_INTERNAL_SERVER_ERROR
    /\ \E i \in 1..Len(e.detail) : e.detail[i] = UpstreamError.detail[1]

\* C15: every error raised by the completion API, by create(...) itself or
\* while the chunks are produced, without streaming and with it, reaches the
\* caller of generate_chat_completion as HTTPException(500) carrying the
\* API's message.
C15_UpstreamErrorTyped ==
    /\ \A ch \in Channels :
          (upstream[ch].fails /\ caught[ch] # NoError) => IsTypedUpstreamError(caught[ch])
    /\ (chatCalls = 1 /\ chatCaught # NoError /\ chatCaught.type # "IndexError")
          => IsTypedUpstreamError(chatCaught)

VectorSearchComplete(s) ==
    /\ Truthy(s.vector_search_endpoint)
    /\ Truthy(s.vector_search_key)
    /\ Truthy(s.vector_search_index)

\* A /ws turn got past generate_chat_completion and the generator's first step
WsRelayTried(ch) == frame[ch] = "valid" /\ pc[ch] \notin {"gen"}

IsIncompleteConfigError(e) ==
    /\ e.type = "HTTPException"
    /\ \E i \in 1..Len(e.detail) : e.detail[i] = "Incomplete vector search configuration"

\* C16: with vector search enabled and endpoint, key or index empty, the
\* relay raises the incomplete-configuration error and create(...) is not
\* called; a call carries a data-source descriptor only when vector search is
\* enabled with all three fields, and then the call is made and carries
\* exactly one.
C16_GroundingAttached ==
    /\ \A ch \in Channels : WsRelayTried(ch) =>
          /\ (settings.vector_search_enabled /\ ~VectorSearchComplete(settings)) =>
                (IsIncompleteConfigError(caught[ch]) /\ ~payload[ch].called)
          /\ payload[ch].dataSources > 0 =>
                (settings.vector_search_enabled /\ VectorSearchComplete(settings))
          /\ (settings.vector_search_enabled /\ VectorSearchComplete(settings)) =>
                (payload[ch].called /\ payload[ch].dataSources = 1)
    /\ chatStatus # 0 =>
          /\ (settings.vector_search_enabled /\ ~VectorSearchComplete(settings)) =>
                (IsIncompleteConfigError(chatCaught) /\ ~chatPayload.called)
          /\ chatPayload.dataSources > 0 =>
                (settings.vector_search_enabled /\ VectorSearchComplete(settings))
          /\ (settings.vector_search_enabled /\ VectorSearchComplete(settings)) =>
                (chatPayload.called /\ chatPayload.dataSources = 1)

\* The first two parts of C16, which the relay does keep
C16_IncompleteFailsFast ==
    /\ \A ch \in Channels : WsRelayTried(ch) =>
          /\ (settings.vector_search_enabled /\ ~VectorSearchComplete(settings)) =>
                (IsIncompleteConfigError(caught[ch]) /\ ~payload[ch].called)
          /\ payload[ch].dataSources > 0 =>
                (settings.vector_search_enabled /\ VectorSearchComplete(settings))
    /\ chatStatus # 0 =>
          /\ (settings.vector_search_enabled /\ ~VectorSearchComplete(settings)) =>
                (IsIncompleteConfigError(chatCaught) /\ ~chatPayload.called)
          /\ chatPayload.dataSources > 0 =>
                (settings.vector_search_enabled /\ VectorSearchComplete(settings))

Missing(x) == x \in {"unset", ""}

\* C17: Settings() with VECTOR_SEARCH_ENABLED=true and an endpoint, key or
\* index that is missing or empty does not fail and gives
\* vector_search_enabled = False; and no resolved Settings has vector search
\* enabled with one of the three fields empty.
C17_IncompleteVectorSearchDowngraded ==
    /\ (/\ cfgPc # "import_config"
        /\ env.OPENAI = "set"
        /\ env.VECTOR_SEARCH_ENABLED = "true"
        /\ \/ Missing(env.VECTOR_SEARCH_ENDPOINT)
           \/ Missing(env.VECTOR_SEARCH_KEY)
           \/ Missing(env.VECTOR_SEARCH_INDEX))
          => (settings.state = "ok" /\ ~settings.vector_search_enabled)
    /\ (settings.state = "ok" /\ settings.vector_search_enabled)
          => VectorSearchComplete(settings)

\* A match of the whole origin
RECURSIVE ReFullMatch(_, _)
ReFullMatch(pat, s) ==
    IF pat = <<>> THEN s = <<>>
    ELSE IF Head(pat) = "*"
    THEN \E k \in 0..Len(s) : ReFullMatch(Tail(pat), SubSeq(s, k + 1, Len(s)))
    ELSE s # <<>> /\ Head(s) = Head(pat) /\ ReFullMatch(Tail(pat), Tail(s))

\* C18: is_origin_allowed answers True only for an origin that is there and
\* that equals an entry without '*' or is matched as a whole by an entry with
\* '*'; an origin that goes on after the text a pattern matches is refused.
C18_OnlyListedOriginsAllowed ==
    (corsCheck.requests > 0 /\ corsCheck.allowed) =>
        /\ corsCheck.origin # <<>>
        /\ \E a \in settings.cors_origins :
              IF "*" \in Range(a) THEN ReFullMatch(a, corsCheck.origin)
              ELSE corsCheck.origin = a

\* The origins CORS_ORIGINS names, trimmed, in either form
ConfiguredOrigins(v) ==
    IF v.form = "unset" THEN {}
    ELSE LET fields == SplitComma(v.raw)
         IN  {Strip(fields[i]) : i \in 1..Len(fields)} \ {<<>>}

Contains(s, sub) ==
    \E i \in 1..Len(s) : i + Len(sub) - 1 <= Len(s) /\ SubSeq(s, i, i + Len(sub) - 1) = sub

\* An origin of the usual shape: a scheme, "://" and a host
IsOrigin(o) ==
    /\ Len(o) >= 3
    /\ o[1] \in {"http", "https"}
    /\ o[2] = "://"
    /\ \A i \in 3..Len(o) : o[i] \in {"www.", "h", "*"}

HttpsOf(o) == Replace(o, <<"http", "://">>, <<"https", "://">>)

\* C19: for every origin named in CORS_ORIGINS that contains http://, given
\* as a comma-separated string or as a list, the resolved cors_origins also
\* holds the origin with https:// in its place.
C19_HttpsSibling ==
    settings.state = "ok" =>
        \A o \in ConfiguredOrigins(env.CORS_ORIGINS) :
            (IsOrigin(o) /\ Contains(o, <<"http", "://">>)) =>
                HttpsOf(o) \in settings.cors_origins

\* Where the host of an origin starts: after the first "://", if there is one
HostStart(o) ==
    IF Contains(o, <<"://">>)
    THEN 1 + CHOOSE i \in 1..Len(o) : o[i] = "://" /\ \A j \in 1..(i - 1) : o[j] # "://"
    ELSE 1

HostHasWww(o) == HostStart(o) <= Len(o) /\ o[HostStart(o)] = "www."

WwwOf(o) ==
    SubSeq(o, 1, HostStart(o) - 1) \o <<"www.">> \o SubSeq(o, HostStart(o), Len(o))

\* C20: every origin of the resolved cors_origins whose host does not start
\* with www., the added https:// origins included, has its www. form in the
\* list too; and the www. form of an origin whose host already starts with
\* www. is in the list only if CORS_ORIGINS names it.
C20_WwwSibling ==
    (settings.state = "ok" /\ env.CORS_ORIGINS.form # "unset") =>
        LET named == ConfiguredOrigins(env.CORS_ORIGINS)
            given == named \cup {HttpsOf(o) : o \in named}
        IN  \A o \in {x \in settings.cors_origins : IsOrigin(x)} :
                IF HostHasWww(o)
                THEN WwwOf(o) \in settings.cors_origins => WwwOf(o) \in given
                ELSE WwwOf(o) \in settings.cors_origins

\* The list the handlers are to send for a request: the system message built
\* from the configured prompt, then the request's messages as role and content
ExpectedMessages(msgs) ==
    <<[role |-> "system", content |-> settings.system_prompt]>>
    \o [i \in 1..Len(msgs) |-> [role |-> msgs[i].role, content |-> msgs[i].content]]

\* C21: every /chat request and every /ws turn that reaches create(...) sends
\* the system message first and once, then the request's messages in their
\* order; a request is never turned away for its messages, an empty list
\* included, which sends the system message alone.
C21_SystemMessageFirst ==
    /\ \A ch \in Channels :
          /\ payload[ch].called => payload[ch].messages = ExpectedMessages(request[ch])
          /\ (frame[ch] = "valid" /\ pc[ch] # "gen" /\ completion_kwargs(settings).exc = NoError)
                => payload[ch].called
    /\ chatPayload.called => chatPayload.messages = ExpectedMessages(chatRequest)
    /\ (chatStatus # 0 /\ completion_kwargs(settings).exc = NoError) => chatPayload.called

C21_Witness ==
    /\ \E ch \in Channels :
          /\ payload[ch].called
          /\ Len(request[ch]) = 2
          /\ request[ch][1] # request[ch][2]
          /\ lastTurn[ch] = "relayed"
    /\ chatStatus = 200
    /\ chatRequest = <<>>
    /\ chatPayload.called
    /\ Len(chatPayload.messages) = 1

\* What went wrong inside the /chat handler, if anything
ChatFailed ==
    \/ completion_kwargs(settings).exc # NoError
    \/ chatUpstream \in {"raises", "malformed"}

\* C22: every failure inside the /chat handler, an upstream error, an
\* incomplete vector search configuration or a malformed upstream result, is
\* answered with status 500 and the error's text in detail; a 200 is returned
\* only when nothing failed, and every request is answered.
C22_ChatFailuresAnswered500 ==
    chatStatus # 0 =>
        /\ chatStatus \in {200, HTTP_500_INTERNAL_SERVER_ERROR}
        /\ ChatFailed =>
              /\ chatStatus = HTTP_500_INTERNAL_SERVER_ERROR
              /\ chatCaught # NoError
              /\ \E i \in 1..Len(chatDetail) :
                    chatDetail[i] = chatCaught.detail[Len(chatCaught.detail)]
        /\ chatStatus = 200 => ~ChatFailed

C22_Witness ==
    /\ chatStatus = HTTP_500_INTERNAL_SERVER_ERROR
    /\ chatUpstream = "malformed"
    /\ chatCalls = 1
    /\ chatDetail = <<"list index out of range">>

\* The send of a fragment of the current stream has failed
FragmentSendFailed(ch) ==
    /\ frame[ch] = "valid"
    /\ lastTurn[ch] = "broken"
    /\ IsText(pending[ch])

\* C23: when the relay of one fragment fails in mid-stream, the error is
\* counted in the stream's metrics record and the rest of the stream is still
\* drained, its fragments taken one after the other, not abandoned.
C23_RelayContinuesAfterError ==
    \A ch \in Channels :
        (FragmentSendFailed(ch) /\ pc[ch] = "done") =>
            /\ pos[ch] = Len(upstream[ch].chunks)
            /\ metricsLog # <<>>
            /\ metricsLog[Len(metricsLog)].errors >= 1

\* Task t is inside `async with self._lock` of connect or disconnect, waiting
WaitsForLock(t) == t \in Tasks /\ pc[t] \in {"c_wait", "d_wait"}

\* C24: the manager never deadlocks: whoever holds the lock eventually
\* releases it, and every connect or disconnect that waits for the lock
\* eventually holds it, also after a sweep pass has found a stale entry.
C24_NoDeadlock ==
    /\ (lockHolder # NoTask) ~> (lockHolder = NoTask)
    /\ \A t \in 1..(NumChannels + 1) : WaitsForLock(t) ~> (lockHolder = t)

\* connect returned True for ch, the server has not closed ch, and its session
\* is still in the receive loop (it has not reached its final disconnect)
SessionAlive(ch) ==
    /\ everAdmitted[ch]
    /\ connectRet[ch] = "true"
    /\ wsState[ch] = "open"
    /\ InLoop(ch)

\* C25: every admitted channel whose session has not ended is tracked: the
\* table's entry for its identity is that very channel; the final disconnect
\* of an old, replaced channel does not remove the entry of the new one.
C25_AdmittedChannelTracked ==
    \A ch \in Channels :
        SessionAlive(ch) =>
            /\ ClientId(ch) \in DOMAIN active_connections
            /\ active_connections[ClientId(ch)] = ch

\* No task is between two suspension points: any other task, or a caller of
\* the manager's synchronous methods, may run now
AtSuspensionPoint == running = NoTask

\* C26: whenever another task can observe the manager (at every suspension
\* point of connect, disconnect and the sweep), active_connections and
\* connection_times have the same keys, and get_connection_info finds a connect
\* time for every client it lists.
C26_SameKeys ==
    AtSuspensionPoint =>
        /\ DOMAIN active_connections = DOMAIN connection_times
        /\ LET info == get_connection_info(active_connections, connection_times, now)
           IN  /\ ~info.raises
               /\ info.total_connections = Size(active_connections)
               /\ DOMAIN info.clients = DOMAIN active_connections

\* A disconnect waits in websocket.close() after an earlier disconnect has
\* removed an entry, and another client's entry is in the table
C26_Witness ==
    /\ AtSuspensionPoint
    /\ removals = 1
    /\ active_connections # EmptyDict
    /\ \E t \in Tasks : pc[t] = "d_close"

====
